---- MODULE Spec2Model ----
(***************************************************************************)
(* Model of src/main.py: the call-intake webhook, the appointment and      *)
(* callback endpoints, and the two in-memory stores they share.            *)
(*                                                                         *)
(* Scheduling.  The app is served by one uvicorn process (main.py:148).    *)
(* `async def` endpoints run as coroutines on the single event-loop        *)
(* thread: between two `await`s a coroutine cannot be interleaved with     *)
(* another coroutine.  The only `await` of receive_vapi_webhook and of     *)
(* create_appointment is `await request.json()` (main.py:71, 121).  The    *)
(* call of analyze_with_ai (main.py:93) is an ordinary blocking call: the  *)
(* coroutine keeps the event loop while the external service answers.      *)
(* Plain `def` endpoints (mark_callback, get_calls, get_appointments) are  *)
(* dispatched by the event loop to a worker thread, where their body runs  *)
(* concurrently with whatever the event loop does.                         *)
(***************************************************************************)
EXTENDS Integers, Sequences, FiniteSets, TLC

VARIABLES
    GROQ_API_KEY,           \* main.py:12, TRUE iff the credential is truthy
    calls_database,         \* main.py:27
    appointments_database,  \* main.py:28
    loop,                   \* task whose coroutine holds the event loop, 0 if none
    kind,                   \* per task: which endpoint it is a request to
    pc,                     \* per task: position in its handler
    req,                    \* per task: the JSON body while handled / the path parameter
    local,                  \* per task: local variables of the handler, while handled
    resp,                   \* per task: the HTTP response
    aiCalls,                \* number of requests sent to the external service
    history                 \* the contents the two stores have had (kept while listing)

vars == <<GROQ_API_KEY, calls_database, appointments_database, loop,
          kind, pc, req, local, resp, aiCalls, history>>

\* Number of requests the process receives in a run.
MaxTasks == 3

Tasks == 1..MaxTasks

(***************************************************************************)
(* Python values.                                                          *)
(***************************************************************************)
\* Python's None (a missing dict key read with .get and no default).
None == "<None>"

\* The empty dict {}.
EmptyDict == <<>>

\* d.get(k, default)
Get(d, k, default) == IF k \in DOMAIN d THEN d[k] ELSE default

\* truthiness of a string-or-None value, as used by `or`
Truthy(v) == v # None /\ v # ""

\* str(v) / f"{v}" of a string-or-None value
PyStr(v) == IF v = None THEN "None" ELSE v

Digits == <<"0", "1", "2", "3", "4", "5", "6", "7", "8", "9">>

\* str(n) of a natural number
RECURSIVE StrOfInt(_)
StrOfInt(n) ==
    IF n < 10 THEN Digits[n + 1]
    ELSE StrOfInt(n \div 10) \o Digits[(n % 10) + 1]

\* Mutant: the parts are joined last to first.
RECURSIVE Join_Reversed(_, _)
Join_Reversed(sep, parts) ==
    IF parts = <<>> THEN ""
    ELSE IF Len(parts) = 1 THEN parts[1]
    ELSE Join_Reversed(sep, Tail(parts)) \o sep \o parts[1]

\* sep.join(parts)
RECURSIVE Join(_, _)
Join(sep, parts) ==
    IF parts = <<>> THEN ""
    ELSE IF Len(parts) = 1 THEN parts[1]
    ELSE parts[1] \o sep \o Join(sep, Tail(parts))

(***************************************************************************)
(* Requests.  A JSON object is a record whose domain is the set of keys    *)
(* present.  A transcript value is tagged with its Python type: a list of  *)
(* message objects or a string.                                            *)
(***************************************************************************)
END_OF_CALL == "end-of-call-report"

ListOf(msgs) == [list |-> msgs]
TextOf(s) == [text |-> s]

WebhookPayloads ==
    { \* bare report: no callId, no call, no transcript, no duration
      [message |-> [type |-> END_OF_CALL]],
      \* report with external callId "1", customer number, string transcript
      [message |-> [type |-> END_OF_CALL, callId |-> "1",
                    transcript |-> TextOf("I need a refill"), duration |-> 42],
       call |-> [customer |-> [number |-> "+15550001"]]],
      \* report with external callId "2", phoneNumber only, message list with a
      \* message lacking role
      [message |-> [type |-> END_OF_CALL, callId |-> "2",
                    transcript |-> ListOf(<<[role |-> "user", content |-> "chest pain"],
                                            [content |-> "calling 911"]>>)],
       call |-> [customer |-> [phoneNumber |-> "+15550002"]]],
      \* another event type, carrying a callId
      [message |-> [type |-> "status-update", callId |-> "1"],
       call |-> [customer |-> [number |-> "+15550001"]]],
      \* no message at all
      [call |-> [customer |-> [number |-> "+15550003"]]] }

AppointmentRequests ==
    { [phone |-> "+15550001", date |-> "2025-01-02", time |-> "09:30",
       notes |-> "bring x-ray", call_id |-> "1"],
      [phone |-> "+15550002", date |-> "2025-01-03", time |-> "14:00"],
      [phone |-> "+15550002", date |-> "2025-01-03", time |-> "14:00",
       call_id |-> "77"],
      [phone |-> "+15550001", time |-> "09:30", call_id |-> "1"],
      [date |-> "2025-01-02", time |-> "09:30", call_id |-> "1"],
      [phone |-> "+15550001", date |-> "2025-01-02", call_id |-> "2"] }

\* path parameter of POST /api/calls/{call_id}/callback
CallbackIds == {"1", "77"}

(***************************************************************************)
(* The external classification service: what one call of                   *)
(* client.chat.completions.create does.  It raises (network error,         *)
(* timeout, API error) or returns a message content; json.loads of the     *)
(* content raises or yields the parsed value.                              *)
(***************************************************************************)
ServiceOutcomes ==
    { [raises |-> TRUE],
      [raises |-> FALSE, parses |-> FALSE],
      [raises |-> FALSE, parses |-> TRUE,
       value |-> [summary |-> "Patient reports chest pain",
                  urgency |-> "EMERGENCY", category |-> "Cardiology"]],
      [raises |-> FALSE, parses |-> TRUE,
       value |-> [summary |-> "Refill request", category |-> "Pharmacy"]] }

\* The call returns JSON with the three fields and an urgency outside the
\* three levels the prompt asks for (main.py:41).
OffEnumOutcome ==
    [raises |-> FALSE, parses |-> TRUE,
     value |-> [summary |-> "Refill request", urgency |-> "HIGH",
                category |-> "Pharmacy"]]

\* values datetime.now().strftime(...) can take
Times == {"2025-01-01 10:00:00"}

(***************************************************************************)
(* analyze_with_ai (main.py:31-65).  `o` is what the external service does *)
(* if it is called.                                                        *)
(***************************************************************************)
KeyMissingResult ==
    [summary |-> "AI Key Missing", urgency |-> "ROUTINE", category |-> "General"]

AnalysisFailedResult ==
    [summary |-> "Analysis failed", urgency |-> "ROUTINE", category |-> "Unknown"]

\* whether analyze_with_ai reaches client.chat.completions.create
CallsService == GROQ_API_KEY

\* Mutant: the credential check of main.py:33 is missing.
analyze_with_ai_NoKeyCheck(transcript, o) ==
    IF o.raises THEN AnalysisFailedResult
    ELSE IF ~o.parses THEN AnalysisFailedResult
    ELSE o.value

analyze_with_ai(transcript, o) ==
    IF ~GROQ_API_KEY THEN KeyMissingResult
    ELSE IF o.raises THEN AnalysisFailedResult
    ELSE IF ~o.parses THEN AnalysisFailedResult
    ELSE o.value

(***************************************************************************)
(* receive_vapi_webhook, the pure parts (main.py:72-105).                  *)
(***************************************************************************)
\* Mutant: a missing type defaults to the recognized event type.
MessageType_WrongDefault(data) ==
    Get(Get(data, "message", EmptyDict), "type", END_OF_CALL)

\* main.py:72
MessageType(data) == Get(Get(data, "message", EmptyDict), "type", "")

\* main.py:79-82
ExtractPhone(data) ==
    IF "call" \in DOMAIN data
    THEN LET customer == Get(data["call"], "customer", EmptyDict)
             number == Get(customer, "number", None)
             phoneNumber == Get(customer, "phoneNumber", None)
         IN  IF Truthy(number) THEN number
             ELSE IF Truthy(phoneNumber) THEN phoneNumber
             ELSE "Unknown"
    ELSE "Unknown"

\* f"{m.get('role')}: {m.get('content')}" (main.py:87)
RenderMessage(m) ==
    PyStr(Get(m, "role", None)) \o ": " \o PyStr(Get(m, "content", None))

\* main.py:85-89
BuildTranscript(call_data) ==
    LET raw_transcript == Get(call_data, "transcript", TextOf(""))
    IN  IF "list" \in DOMAIN raw_transcript
        THEN Join("\n", [i \in 1..Len(raw_transcript.list) |->
                            RenderMessage(raw_transcript.list[i])])
        ELSE raw_transcript.text

\* main.py:96
CallRecordId(call_data, db) ==
    LET callId == Get(call_data, "callId", None)
    IN  IF Truthy(callId) THEN callId ELSE StrOfInt(Len(db) + 1)

\* keys read with ai_analysis[...] (main.py:99-101); a missing one raises KeyError
AnalysisKeys == {"summary", "urgency", "category"}

\* main.py:95-105
BuildCallRecord(call_data, phone, transcript, ai_analysis, db, now) ==
    [id |-> CallRecordId(call_data, db),
     phone |-> phone,
     transcript |-> transcript,
     summary |-> ai_analysis["summary"],
     urgency |-> ai_analysis["urgency"],
     category |-> ai_analysis["category"],
     duration |-> Get(call_data, "duration", 0),
     timestamp |-> now,
     called_back |-> FALSE]

(***************************************************************************)
(* create_appointment and mark_callback, the pure parts.                   *)
(***************************************************************************)
\* keys read with data[...] (main.py:124-126); a missing one raises KeyError
RequiredKeys == {"phone", "date", "time"}

\* Mutant: the appointment id is counted in one numbering space with the
\* call records.
BuildAppointment_SharedIds(data, db) ==
    [id |-> StrOfInt(Len(db) + Len(calls_database) + 1),
     title |-> "Callback: " \o data["phone"],
     start |-> data["date"] \o "T" \o data["time"],
     patient |-> data["phone"],
     notes |-> Get(data, "notes", ""),
     type |-> "callback"]

\* main.py:122-129
BuildAppointment(data, db) ==
    [id |-> StrOfInt(Len(db) + 1),
     title |-> "Callback: " \o data["phone"],
     start |-> data["date"] \o "T" \o data["time"],
     patient |-> data["phone"],
     notes |-> Get(data, "notes", ""),
     type |-> "callback"]

\* Mutant: the loop flips the flag instead of setting it.
MarkAt_Toggle(db, i, call_id) ==
    IF db[i].id = call_id
    THEN [db EXCEPT ![i].called_back = ~db[i].called_back]
    ELSE db

\* Mutant: the loop lacks the comparison of ids.
MarkAt_All(db, i, call_id) ==
    [db EXCEPT ![i].called_back = TRUE]

\* Mutant: the loop stores an updated copy instead of updating in place.
MarkAt_Copy(db, i, call_id) ==
    IF db[i].id = call_id /\ ~db[i].called_back
    THEN Append(db, [db[i] EXCEPT !.called_back = TRUE])
    ELSE db

\* Mutant: a call_id that matches no record inserts a record for it.
MarkAt_Upsert(db, i, call_id) ==
    IF \E j \in 1..Len(db) : db[j].id = call_id
    THEN IF db[i].id = call_id THEN [db EXCEPT ![i].called_back = TRUE] ELSE db
    ELSE Append(db, [db[i] EXCEPT !.id = call_id, !.called_back = TRUE])

\* Mutant: the loop drops the records it has marked.
MarkAt_Remove(db, i, call_id) ==
    IF db[i].id = call_id
    THEN SubSeq(db, 1, i - 1) \o SubSeq(db, i + 1, Len(db))
    ELSE db

\* One iteration of the loop
\* `for c in calls_database: if c['id'] == call_id: c['called_back'] = True`
\* (main.py:133-135 and 141-143), on the record at position i.
MarkAt(db, i, call_id) ==
    IF db[i].id = call_id THEN [db EXCEPT ![i].called_back = TRUE] ELSE db

\* The loop run from its first iteration to its last with no other write in
\* between.
MarkCalledBack(db, call_id) ==
    [i \in 1..Len(db) |->
        IF db[i].id = call_id THEN [db[i] EXCEPT !.called_back = TRUE] ELSE db[i]]

(***************************************************************************)
(* HTTP responses.                                                         *)
(***************************************************************************)
NoResponse == [code |-> 0]
Ok(body) == [code |-> 200, body |-> body]
\* an exception escaping the handler: the framework answers 500
ServerError == [code |-> 500]

NoRequest == [none |-> TRUE]
NoLocal == [none |-> TRUE]

Init ==
    /\ GROQ_API_KEY \in BOOLEAN
    /\ calls_database = <<>>
    /\ appointments_database = <<>>
    /\ loop = 0
    /\ kind = [t \in Tasks |-> "idle"]
    /\ pc = [t \in Tasks |-> "idle"]
    /\ req = [t \in Tasks |-> NoRequest]
    /\ local = [t \in Tasks |-> NoLocal]
    /\ resp = [t \in Tasks |-> NoResponse]
    /\ aiCalls = 0
    /\ history = {}

Ids(db) == {db[i].id : i \in 1..Len(db)}

HasId(db, id) == \E i \in 1..Len(db) : db[i].id = id

\* A listing is being answered.
Listing == \E t \in Tasks : kind[t] \in {"get_calls", "get_appointments"} /\ pc[t] # "done"

\* While a listing is being answered, every content the stores take is kept.
Observed ==
    history' = IF Listing
               THEN history \cup {<<calls_database', appointments_database'>>}
               ELSE history

\* Requests are numbered in the order in which the server accepts them.
CanAccept(t) ==
    /\ kind[t] = "idle"
    /\ \A u \in Tasks : u < t => kind[u] # "idle"
    /\ loop = 0

\* The event loop accepts a POST /webhook/vapi and starts the coroutine, which
\* suspends in `await request.json()` (main.py:71).
WebhookArrives(t) ==
    /\ CanAccept(t)
    /\ kind' = [kind EXCEPT ![t] = "webhook"]
    /\ pc' = [pc EXCEPT ![t] = "await_json"]
    /\ UNCHANGED <<GROQ_API_KEY, calls_database, appointments_database, loop,
                   req, local, resp, aiCalls, history>>

\* The event loop accepts a POST /api/appointments and starts the coroutine,
\* which suspends in `await request.json()` (main.py:121).
AppointmentArrives(t) ==
    /\ CanAccept(t)
    /\ kind' = [kind EXCEPT ![t] = "appointment"]
    /\ pc' = [pc EXCEPT ![t] = "await_json"]
    /\ UNCHANGED <<GROQ_API_KEY, calls_database, appointments_database, loop,
                   req, local, resp, aiCalls, history>>

\* The event loop accepts a POST /api/calls/{call_id}/callback and hands
\* mark_callback to a worker thread (main.py:139-140).
CallbackArrivesWith(t, call_id) ==
    /\ CanAccept(t)
    /\ req' = [req EXCEPT ![t] = call_id]
    /\ kind' = [kind EXCEPT ![t] = "callback"]
    /\ pc' = [pc EXCEPT ![t] = "in_thread"]
    /\ local' = [local EXCEPT ![t] = [i |-> 1]]
    /\ UNCHANGED <<GROQ_API_KEY, calls_database, appointments_database, loop,
                   resp, aiCalls, history>>

CallbackArrives(t) == \E call_id \in CallbackIds : CallbackArrivesWith(t, call_id)

\* receive_vapi_webhook with body `data`, from the return of
\* `await request.json()` to the call of the external service inside
\* analyze_with_ai (main.py:71-93, 31-49).
WebhookFilterWith(t, data) ==
    /\ kind[t] = "webhook" /\ pc[t] = "await_json"
    /\ loop = 0
    /\ LET call_data == Get(data, "message", EmptyDict)
       IN  IF MessageType(data) # END_OF_CALL
           THEN /\ resp' = [resp EXCEPT ![t] = Ok([status |-> "skipped"])]
                /\ pc' = [pc EXCEPT ![t] = "done"]
                /\ UNCHANGED <<loop, req, local, aiCalls>>
           ELSE /\ req' = [req EXCEPT ![t] = data]
                /\ local' = [local EXCEPT ![t] =
                        [phone |-> ExtractPhone(data),
                         transcript |-> BuildTranscript(call_data)]]
                /\ pc' = [pc EXCEPT ![t] = "classifying"]
                /\ loop' = t
                /\ aiCalls' = IF CallsService THEN aiCalls + 1 ELSE aiCalls
                /\ UNCHANGED resp
    /\ UNCHANGED <<GROQ_API_KEY, calls_database, appointments_database, kind, history>>

WebhookFilter(t) == \E data \in WebhookPayloads : WebhookFilterWith(t, data)

\* receive_vapi_webhook from the return of the external service, which did `o`,
\* to the end (main.py:49-65, 95-109).
WebhookStoreWith(t, o, now) ==
    /\ kind[t] = "webhook" /\ pc[t] = "classifying"
    /\ loop = t
    /\ LET call_data == Get(req[t], "message", EmptyDict)
           ai_analysis == analyze_with_ai(local[t].transcript, o)
       IN  IF AnalysisKeys \subseteq DOMAIN ai_analysis
           THEN /\ calls_database' = Append(calls_database,
                      BuildCallRecord(call_data, local[t].phone, local[t].transcript,
                                      ai_analysis, calls_database, now))
                /\ resp' = [resp EXCEPT ![t] = Ok([status |-> "success"])]
           ELSE /\ resp' = [resp EXCEPT ![t] = ServerError]
                /\ UNCHANGED calls_database
    /\ pc' = [pc EXCEPT ![t] = "done"]
    /\ loop' = 0
    /\ req' = [req EXCEPT ![t] = NoRequest]
    /\ local' = [local EXCEPT ![t] = NoLocal]
    /\ UNCHANGED <<GROQ_API_KEY, appointments_database, kind, aiCalls>>
    /\ Observed

WebhookStore(t) == \E o \in ServiceOutcomes, now \in Times : WebhookStoreWith(t, o, now)

\* Mutant: the record is built with .get and appended before the required
\* keys are read.
AppointmentAppendUnchecked(t, data) ==
    /\ kind[t] = "appointment" /\ pc[t] = "await_json"
    /\ loop = 0
    /\ appointments_database' = Append(appointments_database,
          [id |-> StrOfInt(Len(appointments_database) + 1),
           title |-> "Callback: " \o PyStr(Get(data, "phone", None)),
           start |-> PyStr(Get(data, "date", None)) \o "T" \o PyStr(Get(data, "time", None)),
           patient |-> Get(data, "phone", None),
           notes |-> Get(data, "notes", ""),
           type |-> "callback"])
    /\ IF RequiredKeys \subseteq DOMAIN data
       THEN /\ req' = [req EXCEPT ![t] = data]
            /\ local' = [local EXCEPT ![t] =
                  [appt |-> appointments_database'[Len(appointments_database')], i |-> 1]]
            /\ pc' = [pc EXCEPT ![t] = "marking"]
            /\ loop' = t
            /\ UNCHANGED resp
       ELSE /\ resp' = [resp EXCEPT ![t] = ServerError]
            /\ pc' = [pc EXCEPT ![t] = "done"]
            /\ UNCHANGED <<req, local, loop>>
    /\ UNCHANGED <<GROQ_API_KEY, calls_database, kind, aiCalls>>
    /\ Observed

\* Mutant: the matching call is marked in the step that appends the
\* appointment.
AppointmentAppendMarking(t, data) ==
    /\ kind[t] = "appointment" /\ pc[t] = "await_json"
    /\ loop = 0
    /\ IF RequiredKeys \subseteq DOMAIN data
       THEN LET appt == BuildAppointment(data, appointments_database)
            IN  /\ appointments_database' = Append(appointments_database, appt)
                /\ calls_database' =
                      MarkCalledBack(calls_database, Get(data, "call_id", None))
                /\ req' = [req EXCEPT ![t] = data]
                /\ local' = [local EXCEPT ![t] = [appt |-> appt, i |-> 1]]
                /\ pc' = [pc EXCEPT ![t] = "marking"]
                /\ loop' = t
                /\ UNCHANGED resp
       ELSE /\ resp' = [resp EXCEPT ![t] = ServerError]
            /\ pc' = [pc EXCEPT ![t] = "done"]
            /\ UNCHANGED <<appointments_database, calls_database, req, local, loop>>
    /\ UNCHANGED <<GROQ_API_KEY, kind, aiCalls>>
    /\ Observed

\* create_appointment with body `data`, from the return of
\* `await request.json()` to the append (main.py:121-130).
AppointmentAppendWith(t, data) ==
    /\ kind[t] = "appointment" /\ pc[t] = "await_json"
    /\ loop = 0
    /\ IF RequiredKeys \subseteq DOMAIN data
       THEN LET appt == BuildAppointment(data, appointments_database)
            IN  /\ appointments_database' = Append(appointments_database, appt)
                /\ req' = [req EXCEPT ![t] = data]
                /\ local' = [local EXCEPT ![t] = [appt |-> appt, i |-> 1]]
                /\ pc' = [pc EXCEPT ![t] = "marking"]
                /\ loop' = t
                /\ UNCHANGED resp
       ELSE /\ resp' = [resp EXCEPT ![t] = ServerError]
            /\ pc' = [pc EXCEPT ![t] = "done"]
            /\ UNCHANGED <<appointments_database, req, local, loop>>
    /\ UNCHANGED <<GROQ_API_KEY, calls_database, kind, aiCalls>>
    /\ Observed

AppointmentAppend(t) == \E data \in AppointmentRequests : AppointmentAppendWith(t, data)

\* create_appointment, one pass of `for c in calls_database` (main.py:133-135)
\* or, when the list is exhausted, the return (main.py:137).  The coroutine
\* keeps the event loop; worker threads can run between two passes.
AppointmentMark(t) ==
    /\ kind[t] = "appointment" /\ pc[t] = "marking"
    /\ loop = t
    /\ IF local[t].i <= Len(calls_database)
       THEN /\ calls_database' = MarkAt(calls_database, local[t].i,
                                        Get(req[t], "call_id", None))
            /\ local' = [local EXCEPT ![t].i = @ + 1]
            /\ UNCHANGED <<resp, pc, loop, req>>
       ELSE /\ resp' = [resp EXCEPT ![t] =
                           Ok([status |-> "success", appointment |-> local[t].appt])]
            /\ pc' = [pc EXCEPT ![t] = "done"]
            /\ loop' = 0
            /\ req' = [req EXCEPT ![t] = NoRequest]
            /\ local' = [local EXCEPT ![t] = NoLocal]
            /\ UNCHANGED calls_database
    /\ UNCHANGED <<GROQ_API_KEY, appointments_database, kind, aiCalls>>
    /\ Observed

\* mark_callback in its worker thread, one pass of `for c in calls_database`
\* (main.py:141-143) or, when the list is exhausted, the return
\* (main.py:144).  The thread can be switched out between two passes.
MarkCallback(t) ==
    /\ kind[t] = "callback" /\ pc[t] = "in_thread"
    /\ IF local[t].i <= Len(calls_database)
       THEN /\ calls_database' = MarkAt(calls_database, local[t].i, req[t])
            /\ local' = [local EXCEPT ![t].i = @ + 1]
            /\ UNCHANGED pc
       ELSE /\ pc' = [pc EXCEPT ![t] = "returned"]
            /\ local' = [local EXCEPT ![t] = NoLocal]
            /\ UNCHANGED calls_database
    /\ UNCHANGED <<GROQ_API_KEY, appointments_database, loop, kind, req, resp, aiCalls>>
    /\ Observed

\* The event loop, once free, sends the answer of a mark_callback that has
\* returned (main.py:144).
CallbackResponds(t) ==
    /\ kind[t] = "callback" /\ pc[t] = "returned"
    /\ loop = 0
    /\ resp' = [resp EXCEPT ![t] = Ok([status |-> "updated"])]
    /\ pc' = [pc EXCEPT ![t] = "done"]
    /\ UNCHANGED <<GROQ_API_KEY, calls_database, appointments_database, loop,
                   kind, req, local, aiCalls, history>>

Next ==
    \E t \in Tasks :
        \/ WebhookArrives(t)
        \/ AppointmentArrives(t)
        \/ CallbackArrives(t)
        \/ WebhookFilter(t)
        \/ WebhookStore(t)
        \/ AppointmentAppend(t)
        \/ AppointmentMark(t)
        \/ MarkCallback(t)
        \/ CallbackResponds(t)

Spec == Init /\ [][Next]_vars

\* N concurrent deliveries of end-of-call reports that carry no external
\* callId, against the initially empty store, and nothing else.
AutoIdPayloads ==
    {data \in WebhookPayloads :
        /\ MessageType(data) = END_OF_CALL
        /\ ~Truthy(Get(Get(data, "message", EmptyDict), "callId", None))}

NextAutoIds ==
    \E t \in Tasks :
        \/ WebhookArrives(t)
        \/ \E data \in AutoIdPayloads : WebhookFilterWith(t, data)
        \/ WebhookStore(t)

SpecAutoIds == Init /\ [][NextAutoIds]_vars

(***************************************************************************)
(* One delivery of an end-of-call report whose nested fields are present   *)
(* or missing in every combination: the normaliser's inputs.               *)
(***************************************************************************)
\* Longest transcript list delivered.
MaxMessages == 2

TranscriptMessages ==
    { [role |-> "user", content |-> "chest pain"],
      [role |-> "assistant", content |-> "calling 911"],
      [content |-> "hello"],
      [role |-> "user"],
      [name |-> "tool"] }

TranscriptValues ==
    {TextOf(""), TextOf("I need a refill")}
        \cup {ListOf(ms) : ms \in UNION {[1..n -> TranscriptMessages] : n \in 0..MaxMessages}}

CallValues ==
    { [id |-> "c-9"],
      [customer |-> [name |-> "Ann"]],
      [customer |-> [number |-> "+15550001"]],
      [customer |-> [phoneNumber |-> "+15550002"]],
      [customer |-> [number |-> "", phoneNumber |-> "+15550002"]],
      [customer |-> [number |-> "+15550001", phoneNumber |-> "+15550002"]] }

IntakeMessages ==
    {[type |-> END_OF_CALL]}
        \cup {[type |-> END_OF_CALL, transcript |-> tv] : tv \in TranscriptValues}
        \cup {[type |-> END_OF_CALL, callId |-> "9", duration |-> 42, transcript |-> tv] :
                tv \in TranscriptValues}

IntakePayloads ==
    {[message |-> m] : m \in IntakeMessages}
        \cup {[message |-> m, call |-> c] : m \in IntakeMessages, c \in CallValues}

\* what the classification service does in this specification
IntakeOutcomes == ServiceOutcomes \cup {OffEnumOutcome}

NextIntake ==
    \E t \in {1} :
        \/ WebhookArrives(t)
        \/ \E data \in IntakePayloads : WebhookFilterWith(t, data)
        \/ \E o \in IntakeOutcomes, now \in Times : WebhookStoreWith(t, o, now)

SpecIntake == Init /\ [][NextIntake]_vars

(***************************************************************************)
(* Listings.  get_calls and get_appointments return the store itself, not  *)
(* a copy (main.py:113, 117).  The response is encoded from that list      *)
(* afterwards, element by element, on the event-loop thread, while worker  *)
(* threads (mark_callback) go on updating the records it holds.            *)
(***************************************************************************)
\* The event loop accepts a GET /api/calls or GET /api/appointments and hands
\* the endpoint to a worker thread.
ListArrives(t, k) ==
    /\ CanAccept(t)
    /\ kind' = [kind EXCEPT ![t] = k]
    /\ pc' = [pc EXCEPT ![t] = "in_thread"]
    /\ history' = history \cup {<<calls_database, appointments_database>>}
    /\ UNCHANGED <<GROQ_API_KEY, calls_database, appointments_database, loop,
                   req, local, resp, aiCalls>>

GetCallsArrives(t) == ListArrives(t, "get_calls")

GetAppointmentsArrives(t) == ListArrives(t, "get_appointments")

\* the list a listing endpoint returns
ReturnedList(t) ==
    IF kind[t] = "get_calls" THEN calls_database ELSE appointments_database

\* get_calls / get_appointments, in the worker thread: `return calls_database`
\* (main.py:112-113, 116-117).  Nothing is read yet.
ReturnList(t) ==
    /\ kind[t] \in {"get_calls", "get_appointments"} /\ pc[t] = "in_thread"
    /\ pc' = [pc EXCEPT ![t] = "returned"]
    /\ local' = [local EXCEPT ![t] = [out |-> <<>>]]
    /\ UNCHANGED <<GROQ_API_KEY, calls_database, appointments_database, loop,
                   kind, req, resp, aiCalls, history>>

\* The encoding of the returned list: one step reads the next element of
\* the live list, or ends the response when there is none.
EncodeNext(t) ==
    /\ kind[t] \in {"get_calls", "get_appointments"}
    /\ \/ pc[t] = "returned" /\ loop = 0
       \/ pc[t] = "encoding" /\ loop = t
    /\ LET i == Len(local[t].out) + 1
       IN  IF i <= Len(ReturnedList(t))
           THEN /\ local' = [local EXCEPT ![t] =
                                [out |-> Append(local[t].out, ReturnedList(t)[i])]]
                /\ pc' = [pc EXCEPT ![t] = "encoding"]
                /\ loop' = t
                /\ UNCHANGED resp
           ELSE /\ resp' = [resp EXCEPT ![t] = Ok(local[t].out)]
                /\ pc' = [pc EXCEPT ![t] = "done"]
                /\ loop' = 0
                /\ local' = [local EXCEPT ![t] = NoLocal]
    /\ UNCHANGED <<GROQ_API_KEY, calls_database, appointments_database,
                   kind, req, aiCalls, history>>

\* A store the program reaches after two deliveries of a bare end-of-call
\* report without credential: records "1" and "2".
TwoCalls ==
    LET call_data == [type |-> END_OF_CALL]
        now == CHOOSE ts \in Times : TRUE
        first == BuildCallRecord(call_data, "Unknown", "", KeyMissingResult, <<>>, now)
    IN  <<first,
          BuildCallRecord(call_data, "Unknown", "", KeyMissingResult, <<first>>, now)>>

InitListing ==
    /\ GROQ_API_KEY = FALSE
    /\ calls_database = TwoCalls
    /\ appointments_database = <<>>
    /\ loop = 0
    /\ kind = [t \in Tasks |-> "idle"]
    /\ pc = [t \in Tasks |-> "idle"]
    /\ req = [t \in Tasks |-> NoRequest]
    /\ local = [t \in Tasks |-> NoLocal]
    /\ resp = [t \in Tasks |-> NoResponse]
    /\ aiCalls = 0
    /\ history = {}

NextListing ==
    \E t \in Tasks :
        \/ GetCallsArrives(t)
        \/ GetAppointmentsArrives(t)
        \/ ReturnList(t)
        \/ EncodeNext(t)
        \/ \E call_id \in Ids(calls_database) : CallbackArrivesWith(t, call_id)
        \/ MarkCallback(t)
        \/ CallbackResponds(t)
        \/ AppointmentArrives(t)
        \/ AppointmentAppend(t)
        \/ AppointmentMark(t)
        \/ WebhookArrives(t)
        \/ WebhookFilter(t)
        \/ WebhookStore(t)

SpecListing == InitListing /\ [][NextListing]_vars

(***************************************************************************)
(* Properties.                                                             *)
(***************************************************************************)
Success == Ok([status |-> "success"])
Skipped == Ok([status |-> "skipped"])

\* C1: no two records of the Call Record Store carry the same id.
C1_UniqueIds ==
    \A i, j \in 1..Len(calls_database) :
        i # j => calls_database[i].id # calls_database[j].id

\* The ids assigned by str(len(calls_database) + 1) alone never collide: the
\* size is read and the record appended without a suspension point between.
AutoIdsDistinct ==
    /\ C1_UniqueIds
    /\ Ids(calls_database) = {StrOfInt(k) : k \in 1..Len(calls_database)}

\* C2: N concurrent deliveries without external callId against the empty store
\* end with exactly N records whose ids are pairwise distinct and form the set
\* {"1", ..., "N"}.
C2_ContiguousIds ==
    (\A t \in Tasks : pc[t] = "done")
        => /\ Len(calls_database) = MaxTasks
           /\ C1_UniqueIds
           /\ Ids(calls_database) = {StrOfInt(k) : k \in 1..MaxTasks}

\* the event-type field of a payload, None when message or type is missing
TypeField(data) ==
    IF "message" \in DOMAIN data /\ "type" \in DOMAIN data["message"]
    THEN data["message"]["type"]
    ELSE None

\* C3: a webhook whose message type is not "end-of-call-report" (or is
\* missing) is answered {status: "skipped"}, the classifier is not invoked,
\* and neither store changes.
C3_OtherTypesSkipped ==
    [][\A t \in Tasks, data \in WebhookPayloads :
          (WebhookFilterWith(t, data) /\ TypeField(data) # "end-of-call-report")
              => /\ resp'[t] = Skipped
                 /\ pc'[t] = "done"
                 /\ aiCalls' = aiCalls
                 /\ loop' = loop
                 /\ calls_database' = calls_database
                 /\ appointments_database' = appointments_database]_vars

\* C3 witness: a delivery was skipped while both stores hold records.
C3_Witness ==
    /\ \E t \in Tasks : kind[t] = "webhook" /\ pc[t] = "done" /\ resp[t] = Skipped
    /\ Len(calls_database) = 1
    /\ Len(appointments_database) = 1

\* C4: a record is inserted with called_back = FALSE, and no step sets a TRUE
\* called_back back to FALSE (stored records keep their position).
C4_CalledBackMonotone ==
    [][/\ Len(calls_database') >= Len(calls_database)
       /\ \A i \in 1..Len(calls_database') :
            IF i <= Len(calls_database)
            THEN calls_database[i].called_back => calls_database'[i].called_back
            ELSE calls_database'[i].called_back = FALSE]_vars

\* C4 witness: the appointment naming call "1" was created, and its marking
\* loop has run, after one record with id "1" was stored and before another
\* was: the earlier one is called back and the later one is not.
C4_Witness ==
    /\ \E t \in Tasks :
         /\ kind[t] = "appointment" /\ pc[t] = "done"
         /\ resp[t].code = 200 /\ resp[t].body.appointment.notes = "bring x-ray"
    /\ \E i, j \in 1..Len(calls_database) :
         /\ i < j
         /\ calls_database[i].id = "1" /\ calls_database[i].called_back
         /\ calls_database[j].id = "1" /\ ~calls_database[j].called_back
    /\ \A t \in Tasks : kind[t] # "callback"

\* C5: a well-formed appointment request appends exactly one appointment and
\* returns it with status "success"; each pass of its loop sets called_back
\* on a record whose id equals its call_id or changes nothing, and when it
\* returns every record with that id is called back.
C5_AppointmentFrame ==
    [][\A t \in Tasks :
         /\ \A data \in AppointmentRequests :
              (AppointmentAppendWith(t, data) /\ {"phone", "date", "time"} \subseteq DOMAIN data)
                  => /\ Len(appointments_database') = Len(appointments_database) + 1
                     /\ SubSeq(appointments_database', 1, Len(appointments_database))
                            = appointments_database
                     /\ calls_database' = calls_database
                     /\ pc'[t] = "marking"
         /\ AppointmentMark(t)
              => /\ appointments_database' = appointments_database
                 /\ Len(calls_database') = Len(calls_database)
                 /\ \A i \in 1..Len(calls_database) :
                      \/ calls_database'[i] = calls_database[i]
                      \/ /\ "call_id" \in DOMAIN req[t]
                         /\ calls_database[i].id = req[t]["call_id"]
                         /\ calls_database'[i] =
                               [calls_database[i] EXCEPT !.called_back = TRUE]
                 /\ pc'[t] = "done"
                      => /\ resp'[t].code = 200
                         /\ resp'[t].body.status = "success"
                         /\ \E k \in 1..Len(appointments_database) :
                              appointments_database[k] = resp'[t].body.appointment
                         /\ \A i \in 1..Len(calls_database) :
                              ("call_id" \in DOMAIN req[t]
                                 /\ calls_database[i].id = req[t]["call_id"])
                                  => calls_database'[i].called_back]_vars

\* C5 witness: the appointment naming call "1" is done; record "1" is called
\* back and the other record, "2", is not.
C5_Witness ==
    /\ \E t \in Tasks :
         /\ kind[t] = "appointment" /\ pc[t] = "done"
         /\ resp[t].code = 200 /\ resp[t].body.appointment.notes = "bring x-ray"
    /\ Len(appointments_database) = 1
    /\ Len(calls_database) = 2
    /\ \E i, j \in 1..2 :
         /\ calls_database[i].id = "1" /\ calls_database[i].called_back
         /\ calls_database[j].id = "2" /\ ~calls_database[j].called_back

\* C6: an appointment request missing phone, date or time is rejected with
\* an error and changes neither store.
C6_RejectedBeforeMutation ==
    [][\A t \in Tasks, data \in AppointmentRequests :
          (AppointmentAppendWith(t, data)
             /\ ~({"phone", "date", "time"} \subseteq DOMAIN data))
              => /\ resp'[t] = ServerError
                 /\ pc'[t] = "done"
                 /\ appointments_database' = appointments_database
                 /\ calls_database' = calls_database]_vars

\* C6 witness: a request was rejected; the calls "1" and "2" that the
\* rejected requests name exist and are not called back, and no appointment
\* is stored.
C6_Witness ==
    /\ \E t \in Tasks : kind[t] = "appointment" /\ pc[t] = "done" /\ resp[t] = ServerError
    /\ appointments_database = <<>>
    /\ HasId(calls_database, "1") /\ HasId(calls_database, "2")
    /\ \A i \in 1..Len(calls_database) : ~calls_database[i].called_back

\* C7: once the event type matched, the handler ends with exactly one record
\* appended and {status: "success"}, whatever the classifier did; after a
\* failure of the classification call the record carries the fallback values.
C7_AlwaysStored ==
    [][\A t \in Tasks, o \in ServiceOutcomes, now \in Times :
          WebhookStoreWith(t, o, now)
              => /\ Len(calls_database') = Len(calls_database) + 1
                 /\ resp'[t] = Success
                 /\ (GROQ_API_KEY /\ (o.raises \/ ~o.parses))
                      => LET r == calls_database'[Len(calls_database')]
                         IN  /\ r.summary = "Analysis failed"
                             /\ r.urgency = "ROUTINE"
                             /\ r.category = "Unknown"]_vars

\* C8: a parsed classification result that lacks summary, urgency or category
\* does not make the handler raise, and the record is still appended.
C8_MissingFieldTolerated ==
    [][\A t \in Tasks, o \in ServiceOutcomes, now \in Times :
          (WebhookStoreWith(t, o, now) /\ GROQ_API_KEY
             /\ ~o.raises /\ o.parses
             /\ ~({"summary", "urgency", "category"} \subseteq DOMAIN o.value))
              => /\ resp'[t] # ServerError
                 /\ Len(calls_database') = Len(calls_database) + 1]_vars

\* transcripts classify is applied to
Transcripts ==
    {""} \cup {BuildTranscript(Get(data, "message", EmptyDict)) : data \in WebhookPayloads}

\* C9: with no credential, classify returns exactly the "AI Key Missing"
\* result for every transcript, and the external service is never invoked.
C9_KeyMissingFallback ==
    ~GROQ_API_KEY =>
        /\ \A tr \in Transcripts, o \in ServiceOutcomes :
             analyze_with_ai(tr, o) =
                 [summary |-> "AI Key Missing", urgency |-> "ROUTINE",
                  category |-> "General"]
        /\ aiCalls = 0
        /\ \A i \in 1..Len(calls_database) :
             /\ calls_database[i].summary = "AI Key Missing"
             /\ calls_database[i].urgency = "ROUTINE"
             /\ calls_database[i].category = "General"

\* C9 witness: without credential, two records with different transcripts
\* (one of them empty) were classified and stored.
C9_Witness ==
    /\ ~GROQ_API_KEY
    /\ \E i, j \in 1..Len(calls_database) :
         /\ calls_database[i].transcript = ""
         /\ calls_database[j].transcript # ""
         /\ calls_database[i].summary = calls_database[j].summary

\* C10: marking a callback twice leaves the store as marking it once does:
\* no pass of the loop adds, duplicates or rewrites a record, a pass over a
\* record already called back changes nothing, and when mark_callback
\* returns the matching records are called back, so that a second run of
\* the loop changes nothing.
C10_CallbackIdempotent ==
    [][\A t \in Tasks :
          MarkCallback(t)
              => /\ Len(calls_database') = Len(calls_database)
                 /\ \A i \in 1..Len(calls_database) :
                      /\ [calls_database'[i] EXCEPT !.called_back = FALSE]
                            = [calls_database[i] EXCEPT !.called_back = FALSE]
                      /\ calls_database[i].called_back
                            => calls_database'[i] = calls_database[i]
                 /\ pc'[t] = "returned"
                      => MarkCalledBack(calls_database', req[t]) = calls_database'
                 /\ appointments_database' = appointments_database]_vars

\* C10 witness: two callbacks for id "1" are done after record "1" was
\* stored (no appointment was ever made); the record is called back once.
C10_Witness ==
    /\ \A t \in Tasks : kind[t] \in {"webhook", "callback"}
    /\ Cardinality({t \in Tasks :
            kind[t] = "callback" /\ pc[t] = "done" /\ req[t] = "1"}) = 2
    /\ Len(calls_database) = 1
    /\ calls_database[1].id = "1" /\ calls_database[1].called_back

Updated == Ok([status |-> "updated"])

\* C11: a callback update for an id that matches no record answers
\* {status: "updated"} and leaves every record of both stores unchanged.
C11_UnknownIdNoOp ==
    [][\A t \in Tasks :
          /\ (MarkCallback(t) /\ ~HasId(calls_database, req[t]))
                => /\ calls_database' = calls_database
                   /\ appointments_database' = appointments_database
                   /\ resp'[t] = NoResponse
          /\ CallbackResponds(t)
                => /\ resp'[t] = Updated
                   /\ calls_database' = calls_database
                   /\ appointments_database' = appointments_database]_vars

\* C11 witness: the callback for "77", which no record carries, is done while
\* both stores hold records.
C11_Witness ==
    /\ \E t \in Tasks :
         kind[t] = "callback" /\ pc[t] = "done" /\ req[t] = "77" /\ resp[t] = Updated
    /\ Len(calls_database) = 1 /\ ~HasId(calls_database, "77")
    /\ ~calls_database[1].called_back
    /\ Len(appointments_database) = 1

\* the customer's phone number a payload carries, None when a nested field
\* is missing or empty
PhoneField(data) ==
    IF "call" \in DOMAIN data /\ "customer" \in DOMAIN data["call"]
    THEN LET c == data["call"]["customer"]
         IN  IF "number" \in DOMAIN c /\ c["number"] # "" THEN c["number"]
             ELSE IF "phoneNumber" \in DOMAIN c /\ c["phoneNumber"] # ""
                  THEN c["phoneNumber"]
                  ELSE None
    ELSE None

\* Whatever nested fields are missing, an end-of-call payload is normalised
\* without an error: the handler reaches the classification with the phone
\* found or "Unknown", and with "" for an absent transcript.
IntakeNormalizes ==
    [][\A t \in Tasks, data \in IntakePayloads :
          WebhookFilterWith(t, data)
              => /\ pc'[t] = "classifying"
                 /\ resp'[t] = NoResponse
                 /\ local'[t].phone =
                        (IF PhoneField(data) = None THEN "Unknown" ELSE PhoneField(data))
                 /\ "transcript" \notin DOMAIN data["message"]
                        => local'[t].transcript = ""]_vars

\* C12: an end-of-call payload with missing nested fields, or with messages
\* lacking role or content, never ends in an error: the handler does not
\* raise and stores the record, with phone "Unknown" where none was given.
C12_MalformedPayloadStored ==
    [][\A t \in Tasks, o \in IntakeOutcomes, now \in Times :
          WebhookStoreWith(t, o, now)
              => /\ resp'[t] = Success
                 /\ Len(calls_database') = Len(calls_database) + 1
                 /\ PhoneField(req[t]) = None
                      => calls_database'[Len(calls_database')].phone = "Unknown"]_vars

\* the "<role>: <content>" lines of a message list, in list order
RECURSIVE Rendering(_)
Rendering(msgs) ==
    IF Len(msgs) = 0 THEN ""
    ELSE LET last == msgs[Len(msgs)]
             line == last["role"] \o ": " \o last["content"]
         IN  IF Len(msgs) = 1 THEN line
             ELSE Rendering(SubSeq(msgs, 1, Len(msgs) - 1)) \o "\n" \o line

WellFormedList(tv) ==
    /\ "list" \in DOMAIN tv
    /\ \A i \in 1..Len(tv["list"]) : {"role", "content"} \subseteq DOMAIN tv["list"][i]

\* C13: the stored transcript of a list of messages with role and content is
\* the "<role>: <content>" lines joined by newlines in list order; a string
\* transcript is stored unchanged and an absent one as "".
C13_TranscriptRendering ==
    [][\A t \in Tasks, o \in IntakeOutcomes, now \in Times :
          (WebhookStoreWith(t, o, now) /\ Len(calls_database') = Len(calls_database) + 1)
              => LET m == req[t]["message"]
                     stored == calls_database'[Len(calls_database')].transcript
                 IN  IF "transcript" \notin DOMAIN m THEN stored = ""
                     ELSE IF "text" \in DOMAIN m["transcript"]
                          THEN stored = m["transcript"]["text"]
                          ELSE WellFormedList(m["transcript"])
                                 => stored = Rendering(m["transcript"]["list"])]_vars

\* C13 witness: a two-message list was stored as its two lines, in order.
C13_Witness ==
    /\ Len(calls_database) = 1
    /\ calls_database[1].transcript = "user: chest pain\nassistant: calling 911"

\* C14: the list a listing returns is the content its store had at one
\* single point of the execution.
C14_ConsistentSnapshot ==
    \A t \in Tasks :
        (kind[t] \in {"get_calls", "get_appointments"} /\ pc[t] = "done")
            => \E h \in history :
                 resp[t].body = (IF kind[t] = "get_calls" THEN h[1] ELSE h[2])

\* The listing of the appointments is a snapshot: appointments are appended
\* on the event-loop thread, which also encodes the list, and never updated.
AppointmentsSnapshot ==
    \A t \in Tasks :
        (kind[t] = "get_appointments" /\ pc[t] = "done")
            => \E h \in history : resp[t].body = h[2]

\* the next request can be given to task u
NextFree(u) == kind[u] = "idle" /\ \A v \in Tasks : v < u => kind[v] # "idle"

\* C15: while a webhook is in the classification call, other operations are
\* not blocked: a new webhook, appointment or callback request can start,
\* and a handler waiting for its request body can go on.
C15_ClassificationDoesNotBlock ==
    \A t \in Tasks :
        (kind[t] = "webhook" /\ pc[t] = "classifying" /\ CallsService)
            => \A u \in Tasks \ {t} :
                 /\ NextFree(u) => /\ ENABLED WebhookArrives(u)
                                   /\ ENABLED AppointmentArrives(u)
                                   /\ ENABLED CallbackArrives(u)
                 /\ (kind[u] = "webhook" /\ pc[u] = "await_json")
                        => ENABLED WebhookFilter(u)
                 /\ (kind[u] = "appointment" /\ pc[u] = "await_json")
                        => ENABLED AppointmentAppend(u)

\* The pipeline itself leaves both stores alone until the classification
\* call has returned: entering the call changes neither store.
StoresUntouchedBeforeCall ==
    [][\A t \in Tasks :
          (kind'[t] = "webhook" /\ pc'[t] \in {"await_json", "classifying"}
              /\ pc'[t] # pc[t])
              => UNCHANGED <<calls_database, appointments_database>>]_vars

\* C16: every webhook delivery that has ended is in a terminal state of the
\* pipeline: Stored ({status: "success"}) or Skipped ({status: "skipped"}).
C16_TerminalStoredOrSkipped ==
    \A t \in Tasks :
        (kind[t] = "webhook" /\ pc[t] = "done") => resp[t] \in {Success, Skipped}

\* The states of a delivery are passed one-way: received, then either
\* skipped at once or classified and ended.
PipelineOneWay ==
    [][\A t \in Tasks :
          (kind'[t] = "webhook" /\ pc'[t] # pc[t])
              => <<pc[t], pc'[t]>> \in {<<"idle", "await_json">>,
                                        <<"await_json", "done">>,
                                        <<"await_json", "classifying">>,
                                        <<"classifying", "done">>}]_vars

\* C17: both stores are append-only.  No step removes or reorders a record;
\* a stored call record changes in called_back only, a stored appointment
\* not at all.
C17_AppendOnly ==
    [][/\ Len(calls_database') >= Len(calls_database)
       /\ \A i \in 1..Len(calls_database) :
             [calls_database'[i] EXCEPT !.called_back = calls_database[i].called_back]
                 = calls_database[i]
       /\ Len(appointments_database') >= Len(appointments_database)
       /\ \A i \in 1..Len(appointments_database) :
             appointments_database'[i] = appointments_database[i]]_vars

\* C17 witness: inserts into both stores went on after a call was marked,
\* and the marked record still stands first.
C17_Witness ==
    /\ Len(calls_database) >= 2
    /\ Len(appointments_database) >= 1
    /\ calls_database[1].called_back
    /\ ~calls_database[2].called_back

\* C18: the cross-update is two writes in a fixed order.  The step of
\* create_appointment that appends the appointment leaves the calls alone,
\* and the step that marks the call finds the appointment already stored.
C18_AppendBeforeMark ==
    [][\A t \in Tasks :
          /\ (\E data \in AppointmentRequests : AppointmentAppendWith(t, data))
                => calls_database' = calls_database
          /\ AppointmentMark(t)
                => /\ appointments_database' = appointments_database
                   /\ \E i \in 1..Len(appointments_database) :
                         appointments_database[i] = local[t].appt]_vars

\* C18 witness: the intermediate state.  The appointment is stored and the
\* call it names is not yet marked.
C18_Witness ==
    \E t \in Tasks :
        /\ kind[t] = "appointment" /\ pc[t] = "marking"
        /\ \E i \in 1..Len(appointments_database) :
              appointments_database[i] = local[t].appt
        /\ \E i \in 1..Len(calls_database) :
              /\ calls_database[i].id = Get(req[t], "call_id", None)
              /\ ~calls_database[i].called_back

\* decimal numerals, written out
Numerals == <<"1", "2", "3", "4", "5", "6", "7", "8", "9", "10">>

\* C19: the k-th stored appointment has id str(k), whatever webhooks were
\* stored and whatever appointment requests were rejected; so appointment
\* ids are pairwise distinct.
C19_AppointmentIds ==
    /\ \A k \in 1..Len(appointments_database) :
          appointments_database[k].id = Numerals[k]
    /\ \A i, j \in 1..Len(appointments_database) :
          i # j => appointments_database[i].id # appointments_database[j].id

\* C19 witness: a call record and two appointments are stored; one creation
\* has ended and another is between its two writes.
C19_Witness ==
    /\ Len(appointments_database) = 2
    /\ Len(calls_database) >= 1
    /\ \E t, u \in Tasks :
          /\ t # u
          /\ kind[t] = "appointment" /\ kind[u] = "appointment"
          /\ pc[t] = "done" /\ pc[u] = "marking"

\* the urgency levels of a call record
UrgencyLevels == {"EMERGENCY", "PRIORITY", "ROUTINE"}

\* C20: the urgency of every stored call record is EMERGENCY, PRIORITY or
\* ROUTINE, whatever the classification service returned.
C20_UrgencyInEnum ==
    \A i \in 1..Len(calls_database) : calls_database[i].urgency \in UrgencyLevels

\* The fallback results carry an urgency of the enumeration.
FallbackUrgencyInEnum ==
    /\ KeyMissingResult["urgency"] \in UrgencyLevels
    /\ AnalysisFailedResult["urgency"] \in UrgencyLevels

====
